---- MODULE Spec2Model ----
(***************************************************************************)
(* Model of the Telegram ads marketplace: the persistence API of           *)
(* src/main.py (users, channels, orders) and the bot handlers of           *)
(* src/bot_handlers.py that drive the order lifecycle.                     *)
(*                                                                         *)
(* Every API endpoint is an `async def` without an await in its body, so   *)
(* one request is one atomic step.  A bot handler is a coroutine: between  *)
(* two awaits it is atomic, and aiogram runs the handlers of different     *)
(* updates concurrently.  The approve handler, which reads, publishes and  *)
(* then writes, is therefore split at its awaits; the handlers that make a *)
(* single API call are one step.                                           *)
(***************************************************************************)
EXTENDS Integers, Sequences, FiniteSets, TLC

VARIABLES
    users,        \* table users: telegram id -> row (or absent)
    channels,     \* table channels: sequence of rows, the index is Channel.id
    orders,       \* table orders: sequence of rows, the index is Order.id
    session,      \* aiogram FSM storage: principal -> [state, data]
    approve,      \* the approve handlers in flight: task -> local variables
    channelPosts, \* what the bot has sent to the Telegram channels, in order
    botMember,    \* Telegram: the bot's membership record in each channel
    admin_check,  \* the membership query last made on its own, and its answer
    verified,     \* principal -> the chats the gate has passed in its session
    lastAnswer,   \* principal -> the last message the bot has sent in the dialogue
    forwarding,   \* principal -> its process_channel_forward awaits its answer
    notice,       \* the last call of notify_order_status_change: sends, exception
    lock,         \* the content of /tmp/telegram_bot.lock
    proc          \* the bot processes: pid -> position in bot.py and locals

\* The variables of the registration conversation and of its environment
instances == <<lock, proc>>
conversation ==
    <<botMember, admin_check, verified, lastAnswer, forwarding, notice, instances>>

vars == <<users, channels, orders, session, approve, channelPosts, conversation>>

(***************************************************************************)
(* Bounds of the model                                                     *)
(***************************************************************************)
MaxTasks == 1       \* approve handlers running at the same time
MaxSends == 2       \* messages the bot sends to channels

(***************************************************************************)
(* Inputs                                                                  *)
(***************************************************************************)
Principals == {"alice", "bob"}          \* Telegram user ids
Owners == {"alice"}                     \* the principals that register a channel
Buyers == {"bob"}                       \* the principals that buy and submit creatives
\* The order ids followed, each 404 until its order is created.  A handler
\* addresses one order by id and PATCH writes that row only.
OrderIds == {1}
TgChannels == {-1001}                   \* Telegram channel ids
Usernames == {"chan"}                   \* channel_username (None when private)
AdTypes == {"post"}
Prices == {100}
Pricings == {[post |-> 100]}            \* price lists of the channels on sale
Times == {"t1"}                         \* values of datetime.utcnow()
Texts == {"ad"}                         \* ad texts
Media == {"m1"}                         \* Telegram file ids
Tasks == 1..MaxTasks

None == "none"
NoRef == <<>>                           \* a null reference (post_url, transaction id)

\* Telegram's record of a user that is not in the chat
NotMember == [status |-> "left", can_post_messages |-> "absent"]
NoCheck == [asked |-> FALSE]
\* No call of notify_order_status_change yet
NoNotice == [order_id |-> 0, status |-> None, sends |-> <<>>, raised |-> None]

(***************************************************************************)
(* Tables                                                                  *)
(***************************************************************************)
NoUser == [exists |-> FALSE, is_channel_owner |-> FALSE, is_advertiser |-> FALSE]

\* User(telegram_id=...): the role flags default to False
NewUser == [exists |-> TRUE, is_channel_owner |-> FALSE, is_advertiser |-> FALSE]

\* A PATCH that also copies price and ad_type
UpdatableWithPrice ==
    {"status", "payment_method", "payment_transaction_id",
     "creative_content", "creative_media_id", "post_url", "notes",
     "paid_at", "completed_at", "price", "ad_type"}

\* The columns PATCH /orders/{id} copies from the request body
Updatable == {"status", "payment_method", "payment_transaction_id",
              "creative_content", "creative_media_id", "post_url", "notes",
              "paid_at", "completed_at"}

OrderExists(o) == o \in DOMAIN orders

(***************************************************************************)
(* Persistence API (src/main.py)                                           *)
(***************************************************************************)
\* "Get or create" of create_channel and create_order, with the role update
GetOrCreate(us, tid, flag) ==
    [us EXCEPT ![tid] = [(IF @.exists THEN @ ELSE NewUser) EXCEPT ![flag] = TRUE]]

ChannelByTg(tg) == {c \in DOMAIN channels : channels[c].telegram_channel_id = tg}

\* A POST /channels/ without the lookup of the external id
create_channel_unchecked(owner, tg, title, username, pricing) ==
    [users |-> GetOrCreate(users, owner, "is_channel_owner"),
     channels |-> Append(channels,
         [owner_id |-> owner, telegram_channel_id |-> tg,
          channel_title |-> title, channel_username |-> username,
          pricing |-> pricing, status |-> "active"]),
     error |-> None]

\* POST /channels/: the new value of <<users, channels>>, and the response
create_channel(owner, tg, title, username, pricing) ==
    LET us == GetOrCreate(users, owner, "is_channel_owner") IN
    IF ChannelByTg(tg) # {}
    THEN [users |-> us, channels |-> channels, error |-> "Channel already exists"]
    ELSE [users |-> us,
          channels |-> Append(channels,
              [owner_id |-> owner, telegram_channel_id |-> tg,
               channel_title |-> title, channel_username |-> username,
               pricing |-> pricing, status |-> "active"]),
          error |-> None]

NewOrder(buyer, channel_id, ad_type, price) ==
    [buyer_id |-> buyer, channel_id |-> channel_id, ad_type |-> ad_type,
     price |-> price, status |-> "pending_payment",
     payment_method |-> None, payment_transaction_id |-> NoRef,
     creative_content |-> None, creative_media_id |-> None,
     post_url |-> NoRef, notes |-> None, paid_at |-> None, completed_at |-> None]

\* POST /orders/: the new value of <<users, orders>>, and the response.
\* The handler gives the row no final_price, a column models.py declares NOT
\* NULL without a default: whether the INSERT is committed depends on the
\* orders table of the database the service is connected to (create_all
\* leaves an existing table as it is), so both outcomes are modelled.
create_order(buyer, channel_id, ad_type, price, committed) ==
    LET us == GetOrCreate(users, buyer, "is_advertiser") IN
    IF channel_id \notin DOMAIN channels
    THEN [users |-> us, orders |-> orders, error |-> "Channel not found"]
    ELSE IF ~committed
    THEN [users |-> us, orders |-> orders, error |-> "Internal Server Error"]
    ELSE [users |-> us,
          orders |-> Append(orders, NewOrder(buyer, channel_id, ad_type, price)),
          error |-> None]

\* The row after PATCH /orders/{id} has copied the keys of the body it knows
Patched(row, update_data) ==
    [f \in DOMAIN row |->
        IF f \in Updatable /\ f \in DOMAIN update_data THEN update_data[f] ELSE row[f]]

\* PATCH /orders/{id}: the new value of orders, and the response
update_order(order_id, update_data) ==
    IF ~OrderExists(order_id)
    THEN [orders |-> orders, error |-> "Order not found"]
    ELSE [orders |-> [orders EXCEPT ![order_id] = Patched(@, update_data)],
          error |-> None]

\* An api_request that repeats a call until it reaches the endpoint
ApiPatchRetried(ok, order_id, update_data) == update_order(order_id, update_data)

\* api_request: the call either reaches the endpoint or fails on the way,
\* and then the handler sees {"error": ...} and the tables are as before
ApiPatchOrder(ok, order_id, update_data) ==
    IF ok THEN update_order(order_id, update_data)
    ELSE [orders |-> orders, error |-> "Request failed"]

(***************************************************************************)
(* Operations that fill the tables                                         *)
(***************************************************************************)
CreateChannel(owner, tg, username, pricing) ==
    LET r == create_channel(owner, tg, "Title", username, pricing) IN
    /\ users' = r.users
    /\ channels' = r.channels
    /\ UNCHANGED <<orders, session, approve, channelPosts, conversation>>

CreateOrder(buyer, channel_id, ad_type, price, committed) ==
    /\ Len(orders) + 1 \in OrderIds
    /\ LET r == create_order(buyer, channel_id, ad_type, price, committed) IN
        /\ users' = r.users
        /\ orders' = r.orders
    /\ UNCHANGED <<channels, session, approve, channelPosts, conversation>>

(***************************************************************************)
(* FSM storage (aiogram FSMContext)                                        *)
(***************************************************************************)
\* state.update_data(**kwargs)
Merge(data, kwargs) ==
    [k \in DOMAIN data \cup DOMAIN kwargs |->
        IF k \in DOMAIN kwargs THEN kwargs[k] ELSE data[k]]

\* data.get(key): None when the key is absent
Get(data, key) == IF key \in DOMAIN data THEN data[key] ELSE None

\* state.clear()
Cleared == [state |-> None, data |-> <<>>]

(***************************************************************************)
(* Payment (callback_pay_order)                                            *)
(***************************************************************************)
PayBody(order_id, now) ==
    [status |-> "paid", payment_method |-> "simulated",
     payment_transaction_id |-> <<"SIM", order_id, now>>, paid_at |-> now]

callback_pay_order(p, order_id, now, ok) ==
    /\ orders' = ApiPatchOrder(ok, order_id, PayBody(order_id, now)).orders
    /\ UNCHANGED <<users, channels, session, approve, channelPosts, conversation>>

(***************************************************************************)
(* Creative submission                                                     *)
(***************************************************************************)
\* A storage with one session for all the users of the bot
SubmitSharedSession(p, order_id, sent) ==
    /\ session' = [q \in Principals |->
                      [state |-> IF sent THEN "waiting_for_content" ELSE session[q].state,
                       data |-> Merge(session[q].data, [order_id |-> order_id])]]
    /\ UNCHANGED <<users, channels, orders, approve, channelPosts, conversation>>

\* update_data(order_id), the prompt, set_state: when the prompt is not
\* delivered (sent is false) the exception ends the handler before set_state
callback_submit_creative(p, order_id, sent) ==
    /\ session' = [session EXCEPT ![p] =
                      [state |-> IF sent THEN "waiting_for_content" ELSE @.state,
                       data |-> Merge(@.data, [order_id |-> order_id])]]
    /\ UNCHANGED <<users, channels, orders, approve, channelPosts, conversation>>

\* The messages a principal can send: a text (a command or not), a photo, a
\* video, or something else (a sticker)
TextMessages == {[kind |-> "text", text |-> x] : x \in Texts \cup {"/cancel", "/skip"}}
MediaMessages == {[kind |-> k, file_id |-> m] : k \in {"photo", "video"}, m \in Media}
OtherMessages == {[kind |-> "sticker"]}
Messages == TextMessages \cup MediaMessages \cup OtherMessages

\* A text step that takes whatever it is sent for the ad text
ContentTakesAnything(p, message, sent) ==
    /\ session[p].state = "waiting_for_content"
    /\ session' = [session EXCEPT ![p] =
          [state |-> "waiting_for_media",
           data |-> Merge(@.data, [creative_content |-> message.kind])]]
    /\ UNCHANGED <<users, channels, orders, approve, channelPosts, conversation>>

\* Each branch answers before it changes the state: an answer that is not
\* delivered (sent is false) raises and the rest of the branch is skipped
process_creative_content(p, message, sent) ==
    /\ session[p].state = "waiting_for_content"
    /\ session' = [session EXCEPT ![p] =
          IF message.kind = "text" /\ message.text = "/cancel"
          THEN IF sent THEN Cleared ELSE @
          ELSE IF message.kind # "text" THEN @
          ELSE [state |-> IF sent THEN "waiting_for_media" ELSE @.state,
                data |-> Merge(@.data, [creative_content |-> message.text])]]
    /\ UNCHANGED <<users, channels, orders, approve, channelPosts, conversation>>

CreativeBody(creative_content, creative_media_id) ==
    [creative_content |-> creative_content,
     creative_media_id |-> creative_media_id,
     status |-> "creative_submitted"]

\* What process_creative_media does with a message: abort, re-prompt, or submit
MediaStep(message) ==
    IF message.kind = "text"
    THEN IF message.text = "/cancel" THEN [do |-> "cancel"]
         ELSE IF message.text = "/skip" THEN [do |-> "submit", media |-> None]
         ELSE [do |-> "prompt"]
    ELSE IF message.kind \in {"photo", "video"}
         THEN [do |-> "submit", media |-> message.file_id]
         ELSE [do |-> "prompt"]

process_creative_media(p, message, ok, sent) ==
    /\ session[p].state = "waiting_for_media"
    /\ LET data == session[p].data
           step == MediaStep(message)
       IN  CASE step.do = "cancel" ->
                  /\ session' = [session EXCEPT ![p] = IF sent THEN Cleared ELSE @]
                  /\ UNCHANGED orders
             [] step.do = "prompt" ->
                  UNCHANGED <<session, orders>>
             [] step.do = "submit" ->
                  /\ orders' = ApiPatchOrder(ok, Get(data, "order_id"),
                                   CreativeBody(Get(data, "creative_content"),
                                                step.media)).orders
                  /\ session' = [session EXCEPT ![p] = IF sent THEN Cleared ELSE @]
    /\ UNCHANGED <<users, channels, approve, channelPosts, conversation>>

(***************************************************************************)
(* Moderation: approve (callback_approve_order), reject, cancel            *)
(***************************************************************************)
Idle == [pc |-> "idle", actor |-> None, order_id |-> 0,
         creative_content |-> None, creative_media_id |-> None,
         channel_id |-> 0, telegram_channel_id |-> 0, post_url |-> NoRef]

\* GET /orders/{order_id}, then GET /channels/{channel_id}; on an error of
\* either the handler answers and returns.  No endpoint changes or deletes a
\* channel row, so the second read sees what it would see at once: the two
\* reads are one step.
ApproveRead(t, p, order_id, okOrder, okChannel) ==
    /\ approve[t].pc = "idle"
    /\ \A u \in Tasks : u < t => approve[u].pc # "idle"
    /\ approve' = [approve EXCEPT ![t] =
          IF okOrder /\ OrderExists(order_id)
             /\ okChannel /\ orders[order_id].channel_id \in DOMAIN channels
          THEN [Idle EXCEPT !.pc = "read", !.actor = p, !.order_id = order_id,
                   !.creative_content = orders[order_id].creative_content,
                   !.creative_media_id = orders[order_id].creative_media_id,
                   !.channel_id = orders[order_id].channel_id,
                   !.telegram_channel_id =
                       channels[orders[order_id].channel_id].telegram_channel_id]
          ELSE Idle]
    /\ UNCHANGED <<users, channels, orders, session, channelPosts, conversation>>

\* The id Telegram gives the next message of a chat
NextMessageId(chat) ==
    Cardinality({i \in DOMAIN channelPosts : channelPosts[i].chat = chat}) + 1

PostUrl(channel, message_id) ==
    IF channel.channel_username # None
    THEN <<"https://t.me", channel.channel_username, message_id>>
    ELSE <<"Posted to channel", channel.channel_title>>

\* bot.send_photo / bot.send_message: text=None is refused by the client, and
\* Telegram can refuse any send; both raise, and the handler reports FAILED
SendAccepted(task, ok) ==
    ok /\ (task.creative_media_id # None \/ task.creative_content # None)

\* After the send the handler reads only order_id and post_url (and the
\* callback), so the other locals are dropped there.
ApproveSend(t, ok) ==
    /\ approve[t].pc = "read"
    /\ Len(channelPosts) < MaxSends
    /\ LET task == approve[t]
           chat == task.telegram_channel_id
       IN  IF SendAccepted(task, ok)
           THEN /\ channelPosts' = Append(channelPosts,
                       [chat |-> chat, order_id |-> task.order_id])
                /\ approve' = [approve EXCEPT ![t] =
                       [Idle EXCEPT !.pc = "sent", !.actor = task.actor,
                           !.order_id = task.order_id,
                           !.post_url = PostUrl(channels[task.channel_id],
                                                NextMessageId(chat))]]
           ELSE /\ approve' = [approve EXCEPT ![t] = Idle]
                /\ UNCHANGED channelPosts
    /\ UNCHANGED <<users, channels, orders, session, conversation>>

\* A variant that closes the order when it is posted
PostedBodyCompleted(post_url, now) ==
    [status |-> "completed", post_url |-> post_url, completed_at |-> now]

PostedBody(post_url, now) ==
    [status |-> "posted", post_url |-> post_url, completed_at |-> now]

\* PATCH /orders/{order_id}; the handler does not look at the response
ApprovePatch(t, now, ok) ==
    /\ approve[t].pc = "sent"
    /\ orders' = ApiPatchOrder(ok, approve[t].order_id,
                     PostedBody(approve[t].post_url, now)).orders
    /\ approve' = [approve EXCEPT ![t] = Idle]
    /\ UNCHANGED <<users, channels, session, channelPosts, conversation>>

RejectBody == [status |-> "paid"]

callback_reject_order(p, order_id, ok) ==
    /\ orders' = ApiPatchOrder(ok, order_id, RejectBody).orders
    /\ UNCHANGED <<users, channels, session, approve, channelPosts, conversation>>

CancelBody == [status |-> "cancelled"]

callback_cancel_order(p, order_id, ok) ==
    /\ orders' = ApiPatchOrder(ok, order_id, CancelBody).orders
    /\ UNCHANGED <<users, channels, session, approve, channelPosts, conversation>>

(***************************************************************************)
(* Notifications (send_notification, notify_order_status_change)           *)
(***************************************************************************)
\* A send that lets the exception of bot.send_message through
SendRaising(sends, to, text, ok) ==
    [sends |-> Append(sends, [to |-> to, text |-> text, delivered |-> ok]),
     raised |-> IF ok THEN None ELSE "TelegramError"]

\* One call of bot.send_message inside try/except: the exception of a
\* failed send (ok is false) is logged and nothing is raised
send_notification(sends, to, text, ok) ==
    [sends |-> Append(sends, [to |-> to, text |-> text, delivered |-> ok]),
     raised |-> None]

\* The keys of the response of GET /channels/{channel_id}
ChannelKeys ==
    {"id", "owner_id", "telegram_channel_id", "channel_title", "channel_username",
     "subscribers", "avg_views", "pricing", "status", "created_at"}

\* What a call leaves: the sends it made and the exception it ends with.
\* GET /orders/{id} gives buyer_telegram_id; in the branch of
\* creative_submitted the owner is read as channel['owner_telegram_id'], a
\* key the response of GET /channels/{id} does not have.
notify_order_status_change(order_id, new_status, okOrder, okChannel, okSend) ==
    IF ~(okOrder /\ OrderExists(order_id))
    THEN [sends |-> <<>>, raised |-> None]
    ELSE LET buyer == orders[order_id].buyer_id
             toBuyer(text) == send_notification(<<>>, buyer, text, okSend)
         IN  CASE new_status = "paid" -> toBuyer("payment_confirmed")
               [] new_status = "creative_submitted" ->
                    LET first == toBuyer("creative_submitted") IN
                    IF first.raised # None THEN first
                    ELSE IF ~(okChannel /\ orders[order_id].channel_id \in DOMAIN channels)
                    THEN first
                    ELSE IF "owner_telegram_id" \notin ChannelKeys
                    THEN [sends |-> first.sends, raised |-> "KeyError"]
                    ELSE send_notification(first.sends,
                             channels[orders[order_id].channel_id].owner_id,
                             "waiting_for_review", okSend)
               [] new_status = "posted" -> toBuyer("posted")
               [] OTHER -> [sends |-> <<>>, raised |-> None]

\* The statuses the function is called with
Statuses == {"pending_payment", "paid", "creative_submitted", "posted", "cancelled"}

\* A call of notify_order_status_change
Notify(order_id, new_status, okOrder, okChannel, okSend) ==
    /\ LET r == notify_order_status_change(order_id, new_status,
                                           okOrder, okChannel, okSend)
       IN  notice' = [order_id |-> order_id, status |-> new_status,
                      sends |-> r.sends, raised |-> r.raised]
    /\ UNCHANGED <<users, channels, orders, session, approve, channelPosts,
                   botMember, admin_check, verified, lastAnswer, forwarding,
                   instances>>

(***************************************************************************)
(* Admin-verification gate (check_bot_admin_status)                        *)
(***************************************************************************)
\* Python's True and False where a value can also be None
PyTrue == "True"
PyFalse == "False"

\* `if x:` / `if not x:`
Truthy(x) == x = PyTrue

\* The membership records Telegram returns for the bot.  Only an
\* administrator record carries can_post_messages, which is optional there.
Members ==
    {[status |-> "creator", can_post_messages |-> "absent"]}
    \cup {[status |-> "administrator", can_post_messages |-> f] :
             f \in {PyTrue, PyFalse, None}}
    \cup {[status |-> st, can_post_messages |-> "absent"] :
             st \in {"member", "restricted", "left", "kicked"}}

\* The records followed in the registration conversation
RegMembers ==
    {[status |-> "administrator", can_post_messages |-> PyTrue],
     [status |-> "administrator", can_post_messages |-> PyFalse],
     NotMember}

\* A gate that passes everyone
GateOpen(called, member) == [is_admin |-> TRUE, can_post |-> PyTrue]

\* A gate that lets every administrator post
GateAdminsPost(called, member) ==
    IF ~called
    THEN [is_admin |-> FALSE, can_post |-> PyFalse]
    ELSE [is_admin |-> member.status \in {"administrator", "creator"},
          can_post |-> IF member.status \in {"administrator", "creator"}
                       THEN PyTrue ELSE PyFalse]

\* bot.get_chat_member raises when called is false (not a member, network
\* error); otherwise member is the record it returns
check_bot_admin_status(called, member) ==
    IF ~called
    THEN [is_admin |-> FALSE, can_post |-> PyFalse]
    ELSE [is_admin |-> member.status \in {"administrator", "creator"},
          can_post |-> IF member.status = "creator" THEN PyTrue
                       ELSE IF member.status = "administrator"
                            THEN member.can_post_messages
                            ELSE PyFalse]

\* Telegram: the rights of the bot in a channel change
SetMember(chat, member) ==
    /\ botMember' = [botMember EXCEPT ![chat] = member]
    /\ UNCHANGED <<users, channels, orders, session, approve, channelPosts,
                   admin_check, verified, lastAnswer,
                   forwarding, notice, instances>>

\* One call of the gate for a chat, and what it returned
GateCall(chat, called) ==
    /\ admin_check' = [asked |-> TRUE, called |-> called, member |-> botMember[chat],
                       result |-> check_bot_admin_status(called, botMember[chat])]
    /\ UNCHANGED <<users, channels, orders, session, approve, channelPosts,
                   botMember, verified, lastAnswer,
                   forwarding, notice, instances>>

(***************************************************************************)
(* Channel registration (callback_add_channel, process_channel_forward,    *)
(* process_channel_pricing)                                                *)
(***************************************************************************)
MaxChannels == 2    \* rows of the table channels in the conversation

Title == "Title"                        \* forward_from_chat.title

\* Where the sending of messages fails in a handler with try/except: nowhere,
\* at the handler's answer, or at that answer and at the one of the except
Fails == {"none", "answer", "both"}

\* A handler body inside try/except: `delivered` is the session and the
\* message when the answer is delivered; when it raises, the except block
\* answers "Error" and clears; when that raises too, the handler ends with
\* what it had written before the answer (`partial`)
Outcome(fail, delivered, partial) ==
    CASE fail = "none" -> delivered
      [] fail = "answer" -> [session |-> Cleared, answer |-> "error"]
      [] fail = "both" -> partial

callback_add_channel(p, fail) ==
    /\ session' = [session EXCEPT ![p] =
          IF fail = "none" THEN [state |-> "waiting_for_forward", data |-> <<>>]
          ELSE Cleared]
    /\ lastAnswer' = [lastAnswer EXCEPT ![p] =
          IF fail = "none" THEN "add_your_channel"
          ELSE IF fail = "answer" THEN "error" ELSE @]
    /\ UNCHANGED <<users, channels, orders, approve, channelPosts,
                   botMember, admin_check, verified,
                   forwarding, notice, instances>>

\* What a principal sends in waiting_for_forward: a message forwarded from a
\* channel, or any other message
ForwardMessages ==
    {[kind |-> "forward", chat |-> c, username |-> u] : c \in TgChannels, u \in Usernames}
    \cup {[kind |-> "text"]}

\* A gate that remembers the chats it has passed
GateCached(p, chat, called) ==
    IF chat \in verified[p] THEN [is_admin |-> TRUE, can_post |-> PyTrue]
    ELSE check_bot_admin_status(called, botMember[chat])

\* admin_check = await check_bot_admin_status(message, channel_id)
GateFor(p, chat, called) == check_bot_admin_status(called, botMember[chat])

\* A rejection that lets the principal try again at once
RejectedKeepState(answer) ==
    [session |-> [state |-> "waiting_for_forward", data |-> <<>>], answer |-> answer]

\* The rejection of a gate failure: the instructions, then state.clear()
Rejected(answer) == [session |-> Cleared, answer |-> answer]

process_channel_forward(p, message, called, fail) ==
    /\ session[p].state = "waiting_for_forward"
    /\ LET s == session[p]
           same == [session |-> s, answer |-> lastAnswer[p]]
           check == GateFor(p, message.chat, called)
           saved == [s EXCEPT !.data = Merge(@,
                        [channel_id |-> message.chat, channel_title |-> Title,
                         channel_username |-> message.username])]
           r == IF message.kind # "forward"
                THEN Outcome(fail, [session |-> s, answer |-> "forward_from_channel"], same)
                ELSE IF ~check.is_admin
                THEN Outcome(fail, Rejected("bot_not_admin"), same)
                ELSE IF ~Truthy(check.can_post)
                THEN Outcome(fail, Rejected("no_post_permission"), same)
                ELSE Outcome(fail,
                        [session |-> [saved EXCEPT !.state = "waiting_for_pricing"],
                         answer |-> "channel_verified"],
                        [session |-> saved, answer |-> lastAnswer[p]])
       IN  /\ session' = [session EXCEPT ![p] = r.session]
           /\ lastAnswer' = [lastAnswer EXCEPT ![p] = r.answer]
           /\ verified' = [verified EXCEPT ![p] =
                 IF message.kind = "forward" /\ check.is_admin /\ Truthy(check.can_post)
                 THEN @ \cup {message.chat} ELSE @]
    /\ UNCHANGED <<users, channels, orders, approve, channelPosts,
                   botMember, admin_check,
                   forwarding, notice, instances>>

\* process_channel_forward for a forward that passes the gate, split at the
\* await of its answer: the dispatcher starts the handler of the principal's
\* next update while this one waits for Telegram.  First part: the gate,
\* update_data.  One such handler per principal is followed at a time.
ForwardVerify(p, message, called) ==
    /\ session[p].state = "waiting_for_forward"
    /\ ~forwarding[p]
    /\ message.kind = "forward"
    /\ LET check == GateFor(p, message.chat, called)
       IN  check.is_admin /\ Truthy(check.can_post)
    /\ session' = [session EXCEPT ![p].data = Merge(@,
                      [channel_id |-> message.chat, channel_title |-> Title,
                       channel_username |-> message.username])]
    /\ verified' = [verified EXCEPT ![p] = @ \cup {message.chat}]
    /\ forwarding' = [forwarding EXCEPT ![p] = TRUE]
    /\ UNCHANGED <<users, channels, orders, approve, channelPosts,
                   botMember, admin_check, lastAnswer, notice, instances>>

\* Second part: the answer has returned, set_state(waiting_for_pricing) on
\* the session as it is now; or the answer has raised, and the except block
\* answers "Error" and clears
ForwardAnswer(p, fail) ==
    /\ forwarding[p]
    /\ LET s == session[p]
           r == Outcome(fail,
                    [session |-> [s EXCEPT !.state = "waiting_for_pricing"],
                     answer |-> "channel_verified"],
                    [session |-> s, answer |-> lastAnswer[p]])
       IN  /\ session' = [session EXCEPT ![p] = r.session]
           /\ lastAnswer' = [lastAnswer EXCEPT ![p] = r.answer]
    /\ forwarding' = [forwarding EXCEPT ![p] = FALSE]
    /\ UNCHANGED <<users, channels, orders, approve, channelPosts,
                   botMember, admin_check, verified, notice, instances>>

\* float(parts[1].strip()) of the strings followed
IsFloat(x) == x \in {"100", "50"}
FloatOf(x) == IF x = "100" THEN 100 ELSE 50

\* A line is taken whatever its key
PricingLineAnyKey(parts) ==
    /\ Len(parts) = 2
    /\ IsFloat(parts[2])

\* A pricing text is the sequence of its lines, a line the sequence of the
\* parts that split(':') gives, stripped and in lower case
PricingLine(parts) ==
    /\ Len(parts) = 2
    /\ IsFloat(parts[2])
    /\ parts[1] \in {"post", "story", "repost"}

\* The loop of process_channel_pricing: a later line overwrites an earlier one
ParsePricing(lines) ==
    LET valid == {i \in DOMAIN lines : PricingLine(lines[i])}
        keys == {lines[i][1] : i \in valid}
        last(k) == CHOOSE i \in valid :
                      /\ lines[i][1] = k
                      /\ \A j \in valid : lines[j][1] = k => j <= i
    IN  [k \in keys |-> FloatOf(lines[last(k)][2])]

\* message.text of the messages sent in waiting_for_pricing (None: no text)
PricingTexts ==
    {None,
     <<<<"post", "100">>>>,
     <<<<"post", "50">>, <<"hello">>, <<"post", "100">>>>,
     <<<<"hello">>, <<"story", "abc">>>>}

process_channel_pricing(p, text, ok, fail) ==
    /\ session[p].state = "waiting_for_pricing"
    /\ LET s == session[p]
           data == s.data
           same == [session |-> s, answer |-> lastAnswer[p]]
           raised == Outcome(IF fail = "both" THEN "both" ELSE "answer", same, same)
           pricing == ParsePricing(text)
           complete == {"channel_id", "channel_title", "channel_username"} \subseteq DOMAIN data
           r == IF complete /\ ok
                THEN create_channel(p, data["channel_id"], data["channel_title"],
                                    data["channel_username"], pricing)
                ELSE [users |-> users, channels |-> channels, error |-> "Request failed"]
       IN  IF DOMAIN data = {}
           THEN /\ session' = [session EXCEPT ![p] =
                       Outcome(fail, [session |-> Cleared, answer |-> "no_channel_data"], same).session]
                /\ lastAnswer' = [lastAnswer EXCEPT ![p] =
                       Outcome(fail, [session |-> Cleared, answer |-> "no_channel_data"], same).answer]
                /\ UNCHANGED <<users, channels>>
           ELSE IF text = None
           THEN /\ session' = [session EXCEPT ![p] = raised.session]
                /\ lastAnswer' = [lastAnswer EXCEPT ![p] = raised.answer]
                /\ UNCHANGED <<users, channels>>
           ELSE IF DOMAIN pricing = {}
           THEN /\ session' = [session EXCEPT ![p] =
                       Outcome(fail, [session |-> s, answer |-> "invalid_format"], same).session]
                /\ lastAnswer' = [lastAnswer EXCEPT ![p] =
                       Outcome(fail, [session |-> s, answer |-> "invalid_format"], same).answer]
                /\ UNCHANGED <<users, channels>>
           ELSE IF ~complete
           THEN /\ session' = [session EXCEPT ![p] = raised.session]
                /\ lastAnswer' = [lastAnswer EXCEPT ![p] = raised.answer]
                /\ UNCHANGED <<users, channels>>
           ELSE /\ Len(r.channels) <= MaxChannels
                /\ users' = r.users
                /\ channels' = r.channels
                /\ LET answer == IF r.error = None THEN "channel_saved"
                                 ELSE IF r.error = "Channel already exists"
                                      THEN "already_listed" ELSE "database_error"
                       o == Outcome(fail, [session |-> Cleared, answer |-> answer], same)
                   IN  /\ session' = [session EXCEPT ![p] = o.session]
                       /\ lastAnswer' = [lastAnswer EXCEPT ![p] = o.answer]
    /\ UNCHANGED <<orders, approve, channelPosts, botMember, admin_check, verified,
                   forwarding, notice, instances>>

(***************************************************************************)
(* Purchase (callback_purchase_channel, callback_select_ad_type,           *)
(* callback_confirm_purchase) and the handlers that reset the session      *)
(***************************************************************************)
ChannelIds == 1..MaxChannels            \* the ids on "Purchase Ad" buttons
AdTypeButtons == {"post", "story"}      \* the ad types on select_adtype buttons

\* GET /channels/{id}, update_data, edit_text, set_state.  The handler has no
\* try: when edit_text raises (sent is false) it ends there.
callback_purchase_channel(p, channel_id, ok, sent) ==
    /\ session' = [session EXCEPT ![p] =
          IF ok /\ channel_id \in DOMAIN channels
          THEN [state |-> IF sent THEN "selecting_ad_type" ELSE @.state,
                data |-> Merge(@.data,
                           [channel_id |-> channel_id,
                            channel_title |-> channels[channel_id].channel_title,
                            pricing |-> channels[channel_id].pricing])]
          ELSE @]
    /\ UNCHANGED <<users, channels, orders, approve, channelPosts, conversation>>

\* price = data.get('pricing', {}).get(ad_type, 0)
PriceOf(data, ad_type) ==
    IF "pricing" \in DOMAIN data /\ ad_type \in DOMAIN data["pricing"]
    THEN data["pricing"][ad_type] ELSE 0

callback_select_ad_type(p, ad_type, sent) ==
    /\ session[p].state = "selecting_ad_type"
    /\ session' = [session EXCEPT ![p] =
          [state |-> IF sent /\ "channel_title" \in DOMAIN @.data
                     THEN "confirming_purchase" ELSE @.state,
           data |-> Merge(@.data,
                      [ad_type |-> ad_type, price |-> PriceOf(@.data, ad_type)])]]
    /\ UNCHANGED <<users, channels, orders, approve, channelPosts, conversation>>

\* POST /orders/ with what the session holds, the messages, state.clear().
\* No try around the first messages: when one is not delivered the handler
\* ends before state.clear().
callback_confirm_purchase(p, ok, committed, sent) ==
    /\ session[p].state = "confirming_purchase"
    /\ LET data == session[p].data
           complete == {"channel_id", "ad_type", "price"} \subseteq DOMAIN data
           r == IF complete /\ ok
                THEN create_order(p, data["channel_id"], data["ad_type"],
                                  data["price"], committed)
                ELSE [users |-> users, orders |-> orders, error |-> "Request failed"]
       IN  /\ Len(r.orders) \in OrderIds \cup {0}
           /\ users' = r.users
           /\ orders' = r.orders
           /\ session' = [session EXCEPT ![p] =
                 IF complete /\ sent THEN Cleared ELSE @]
    /\ UNCHANGED <<channels, approve, channelPosts, conversation>>

\* POST /users/: the row is created without a role when it is not there
create_or_get_user(tid) ==
    [users EXCEPT ![tid] = IF @.exists THEN @ ELSE NewUser]

\* A /start that registers and welcomes but keeps the conversation
StartKeepsSession(p, ok, sent) ==
    /\ users' = IF ok THEN create_or_get_user(p) ELSE users
    /\ lastAnswer' = [lastAnswer EXCEPT ![p] = IF sent THEN "welcome" ELSE @]
    /\ UNCHANGED <<channels, orders, session, approve, channelPosts,
                   botMember, admin_check, verified,
                   forwarding, notice, instances>>

\* /start, in any state: state.clear() first, then POST /users/ (an error is
\* logged and the menu shows no role), then the welcome message
cmd_start(p, ok, sent) ==
    /\ session' = [session EXCEPT ![p] = Cleared]
    /\ users' = IF ok THEN create_or_get_user(p) ELSE users
    /\ lastAnswer' = [lastAnswer EXCEPT ![p] = IF sent THEN "welcome" ELSE @]
    /\ UNCHANGED <<channels, orders, approve, channelPosts,
                   botMember, admin_check, verified,
                   forwarding, notice, instances>>

\* main_menu: state.clear(), then the menu
callback_main_menu(p) ==
    /\ session' = [session EXCEPT ![p] = Cleared]
    /\ UNCHANGED <<users, channels, orders, approve, channelPosts, conversation>>

\* browse_channels (also the Cancel button of the purchase): state.clear(),
\* then the first channel
callback_browse_channels(p) ==
    /\ session' = [session EXCEPT ![p] = Cleared]
    /\ UNCHANGED <<users, channels, orders, approve, channelPosts, conversation>>

(***************************************************************************)
(* Start of the bot (src/bot.py): acquire_lock, force_delete_webhook,      *)
(* main, release_lock.  Each access to the lock file and each signal is a  *)
(* step of its own: the processes are scheduled by the operating system.   *)
(***************************************************************************)
WaitChecks == 2     \* one-second checks for the old instance (30 in bot.py)

Pids == {1, 2}                          \* os.getpid() of the bot processes
DeadPid == 3                            \* a pid no process has
Absent == 0                             \* no lock file
Corrupt == -1                           \* a lock file int() cannot read

NotStarted == [pc |-> "off", old_pid |-> 0, checks |-> 0, webhook |-> "unknown"]

\* The variables bot.py does not touch
marketplace ==
    <<users, channels, orders, session, approve, channelPosts,
      botMember, admin_check, verified, lastAnswer, forwarding, notice>>

\* os.kill(pid, 0) does not raise
Alive(pid) == pid \in Pids /\ proc[pid].pc \notin {"off", "exited", "dead"}

\* The positions inside acquire_lock
Acquiring ==
    {"exists", "read", "probe", "wait", "kill", "unlink_stale", "unlink_corrupt", "write"}

Goto(p, pc) == [proc EXCEPT ![p].pc = pc]

\* The file an earlier run has left: unreadable, or the pid that run had,
\* which no process has now or which a process of this run has got
LeaveLock(content) ==
    /\ lock = Absent
    /\ \A p \in Pids : proc[p].pc = "off"
    /\ lock' = content
    /\ UNCHANGED <<proc, marketplace>>

\* python bot.py
Start(p) ==
    /\ proc[p].pc = "off"
    /\ proc' = Goto(p, "exists")
    /\ UNCHANGED <<lock, marketplace>>

\* if lock_path.exists():
LockExists(p) ==
    /\ proc[p].pc = "exists"
    /\ proc' = Goto(p, IF lock = Absent THEN "write" ELSE "read")
    /\ UNCHANGED <<lock, marketplace>>

\* old_pid = int(lock_path.read_text().strip()); a file that is gone or
\* unreadable raises into the outer except
ReadPid(p) ==
    /\ proc[p].pc = "read"
    /\ proc' = IF lock \in {Absent, Corrupt}
               THEN Goto(p, "unlink_corrupt")
               ELSE [proc EXCEPT ![p].pc = "probe", ![p].old_pid = lock]
    /\ UNCHANGED <<lock, marketplace>>

\* os.kill(old_pid, 0)
Probe(p) ==
    /\ proc[p].pc = "probe"
    /\ proc' = Goto(p, IF Alive(proc[p].old_pid) THEN "wait" ELSE "unlink_stale")
    /\ UNCHANGED <<lock, marketplace>>

\* for i in range(30): time.sleep(1); os.kill(old_pid, 0) -- break when the
\* old process is gone, the else of the loop after the last check
WaitCheck(p) ==
    /\ proc[p].pc = "wait"
    /\ proc' = IF ~Alive(proc[p].old_pid)
               THEN Goto(p, "write")
               ELSE [proc EXCEPT ![p].checks = @ + 1,
                                 ![p].pc = IF proc[p].checks + 1 = WaitChecks
                                           THEN "kill" ELSE "wait"]
    /\ UNCHANGED <<lock, marketplace>>

\* os.kill(old_pid, 9); time.sleep(2) -- a pid that is gone raises, passed.
\* A process that finds its own pid in the file kills itself here.
KillOld(p) ==
    /\ proc[p].pc = "kill"
    /\ LET old == proc[p].old_pid
       IN  proc' = IF old = p THEN Goto(p, "dead")
                   ELSE IF Alive(old)
                   THEN [proc EXCEPT ![old].pc = "dead", ![p].pc = "write"]
                   ELSE Goto(p, "write")
    /\ UNCHANGED <<lock, marketplace>>

\* except OSError: lock_path.unlink() -- when the file is gone the unlink
\* raises inside the handler, into the outer except
UnlinkStale(p) ==
    /\ proc[p].pc = "unlink_stale"
    /\ IF lock = Absent
       THEN proc' = Goto(p, "unlink_corrupt") /\ UNCHANGED lock
       ELSE proc' = Goto(p, "write") /\ lock' = Absent
    /\ UNCHANGED marketplace

\* except: lock_path.unlink() -- when the file is gone acquire_lock raises
UnlinkCorrupt(p) ==
    /\ proc[p].pc = "unlink_corrupt"
    /\ IF lock = Absent
       THEN proc' = Goto(p, "raised") /\ UNCHANGED lock
       ELSE proc' = Goto(p, "write") /\ lock' = Absent
    /\ UNCHANGED marketplace

\* A lock that is taken without writing the pid
WriteNothing(p) ==
    /\ proc[p].pc = "write"
    /\ proc' = Goto(p, "locked")
    /\ UNCHANGED <<lock, marketplace>>

\* lock_path.write_text(str(current_pid)), and acquire_lock returns
WritePid(p) ==
    /\ proc[p].pc = "write"
    /\ lock' = p
    /\ proc' = Goto(p, "locked")
    /\ UNCHANGED marketplace

\* What force_delete_webhook finds: reached is false when a call to Telegram
\* raises, url when a webhook is set, result what delete_webhook returns,
\* still when the second get_webhook_info shows a webhook
WebhookAbsent(reached, url, result, still) ==
    reached /\ (~url \/ (result /\ ~still))

\* A check that goes on whatever it finds
WebhookIgnored(p, reached, url, result, still) ==
    /\ proc[p].pc = "locked"
    /\ proc' = [proc EXCEPT ![p].pc = "verified",
                            ![p].webhook = IF WebhookAbsent(reached, url, result, still)
                                           THEN "absent" ELSE "present"]
    /\ UNCHANGED <<lock, marketplace>>

\* await force_delete_webhook(): it returns when no webhook is left and
\* raises otherwise, and main goes to its except and finally
force_delete_webhook(p, reached, url, result, still) ==
    /\ proc[p].pc = "locked"
    /\ proc' = IF WebhookAbsent(reached, url, result, still)
               THEN [proc EXCEPT ![p].pc = "verified", ![p].webhook = "absent"]
               ELSE [proc EXCEPT ![p].pc = "failed", ![p].webhook = "present"]
    /\ UNCHANGED <<lock, marketplace>>

\* Bot(...), get_me(), setup_handlers, start_polling: get_me raises when ok
\* is false
StartPolling(p, ok) ==
    /\ proc[p].pc = "verified"
    /\ proc' = Goto(p, IF ok THEN "polling" ELSE "failed")
    /\ UNCHANGED <<lock, marketplace>>

\* start_polling returns (SIGINT, SIGTERM) or raises
StopPolling(p, raised) ==
    /\ proc[p].pc = "polling"
    /\ proc' = Goto(p, IF raised THEN "failed" ELSE "stopped")
    /\ UNCHANGED <<lock, marketplace>>

\* release_lock: if lock_path.exists(): lock_path.unlink()
release_lock(held, p) == Absent

\* finally: release_lock() at the end of main
Finally(p) ==
    /\ proc[p].pc \in {"stopped", "failed", "raised"}
    /\ lock' = release_lock(lock, p)
    /\ proc' = Goto(p, IF proc[p].pc = "stopped" THEN "exited" ELSE "crashed")
    /\ UNCHANGED marketplace

\* except Exception: release_lock(); sys.exit(1) around asyncio.run(main())
Crashed(p) ==
    /\ proc[p].pc = "crashed"
    /\ lock' = release_lock(lock, p)
    /\ proc' = Goto(p, "exited")
    /\ UNCHANGED marketplace

\* The steps of acquire_lock
acquire_lock(p) ==
    \/ LockExists(p)
    \/ ReadPid(p)
    \/ Probe(p)
    \/ WaitCheck(p)
    \/ KillOld(p)
    \/ UnlinkStale(p)
    \/ UnlinkCorrupt(p)
    \/ WritePid(p)

(***************************************************************************)
(* Specification of the order lifecycle                                    *)
(***************************************************************************)
Init ==
    /\ users = [p \in Principals |-> NoUser]
    /\ channels = <<>>
    /\ orders = <<>>
    /\ session = [p \in Principals |-> [state |-> None, data |-> <<>>]]
    /\ approve = [t \in Tasks |-> Idle]
    /\ channelPosts = <<>>
    /\ botMember = [c \in TgChannels |-> NotMember]
    /\ admin_check = NoCheck
    /\ verified = [p \in Principals |-> {}]
    /\ lastAnswer = [p \in Principals |-> None]
    /\ forwarding = [p \in Principals |-> FALSE]
    /\ notice = NoNotice
    /\ lock = Absent
    /\ proc = [p \in Pids |-> NotStarted]

Next ==
    \/ \E p \in Owners, tg \in TgChannels, u \in Usernames, pricing \in Pricings :
           ChannelByTg(tg) = {} /\ CreateChannel(p, tg, u, pricing)
    \/ \E p \in Buyers, c \in DOMAIN channels, a \in AdTypes, pr \in Prices,
             committed \in BOOLEAN : CreateOrder(p, c, a, pr, committed)
    \/ \E p \in Principals, o \in OrderIds, now \in Times, ok \in BOOLEAN :
           callback_pay_order(p, o, now, ok)
    \/ \E p \in Buyers, o \in OrderIds, sent \in BOOLEAN :
           callback_submit_creative(p, o, sent)
    \/ \E p \in Buyers, m \in Messages, sent \in BOOLEAN :
           process_creative_content(p, m, sent)
    \/ \E p \in Buyers, m \in Messages, ok \in BOOLEAN, sent \in BOOLEAN :
           process_creative_media(p, m, ok, sent)
    \/ \E t \in Tasks, p \in Principals, o \in OrderIds, ok1 \in BOOLEAN, ok2 \in BOOLEAN :
           ApproveRead(t, p, o, ok1, ok2)
    \/ \E t \in Tasks, ok \in BOOLEAN : ApproveSend(t, ok)
    \/ \E t \in Tasks, now \in Times, ok \in BOOLEAN : ApprovePatch(t, now, ok)
    \/ \E p \in Principals, o \in OrderIds, ok \in BOOLEAN :
           callback_reject_order(p, o, ok)
    \/ \E p \in Principals, o \in OrderIds, ok \in BOOLEAN :
           callback_cancel_order(p, o, ok)

Spec == Init /\ [][Next]_vars

\* asyncio runs a coroutine that has started up to its end: an approve that
\* has read its order goes on to send, and one that has sent goes on to write
ApproveStep ==
    \E t \in Tasks, now \in Times, ok \in BOOLEAN :
        ApproveSend(t, ok) \/ ApprovePatch(t, now, ok)

FairSpec == Init /\ [][Next]_vars /\ WF_vars(ApproveStep)

(***************************************************************************)
(* Specification of the gate on its own                                    *)
(***************************************************************************)
GateNext ==
    \/ \E c \in TgChannels, m \in Members : SetMember(c, m)
    \/ \E c \in TgChannels, called \in BOOLEAN : GateCall(c, called)

GateSpec == Init /\ [][GateNext]_vars

(***************************************************************************)
(* Specification of the conversation: registration and purchase in the     *)
(* session of one principal, with the buttons of earlier messages still    *)
(* there to be pressed                                                     *)
(***************************************************************************)
Talkers == {"alice"}

\* The messages sent in waiting_for_content: an ad text, /cancel, a sticker
DialogueMessages ==
    {[kind |-> "text", text |-> "ad"], [kind |-> "text", text |-> "/cancel"],
     [kind |-> "sticker"]}

DialogueNext ==
    \/ \E c \in TgChannels, m \in RegMembers : SetMember(c, m)
    \/ \E p \in Talkers, fail \in Fails : callback_add_channel(p, fail)
    \/ \E p \in Talkers, m \in ForwardMessages, called \in BOOLEAN, fail \in Fails :
           process_channel_forward(p, m, called, fail)
    \/ \E p \in Talkers, text \in PricingTexts, ok \in BOOLEAN, fail \in Fails :
           process_channel_pricing(p, text, ok, fail)
    \/ \E p \in Talkers, c \in ChannelIds, ok \in BOOLEAN, sent \in BOOLEAN :
           callback_purchase_channel(p, c, ok, sent)
    \/ \E p \in Talkers, a \in AdTypeButtons, sent \in BOOLEAN :
           callback_select_ad_type(p, a, sent)
    \/ \E p \in Talkers, ok \in BOOLEAN, committed \in BOOLEAN, sent \in BOOLEAN :
           callback_confirm_purchase(p, ok, committed, sent)
    \/ \E p \in Talkers, o \in OrderIds, sent \in BOOLEAN :
           callback_submit_creative(p, o, sent)
    \/ \E p \in Talkers, ok \in BOOLEAN, sent \in BOOLEAN : cmd_start(p, ok, sent)
    \/ \E p \in Talkers : callback_main_menu(p)
    \/ \E p \in Talkers : callback_browse_channels(p)

DialogueSpec == Init /\ [][DialogueNext]_vars

(***************************************************************************)
(* Specification of the start of the bot: two processes, and the lock file *)
(* an earlier run may have left                                            *)
(***************************************************************************)
LockNext ==
    \/ \E content \in {Corrupt, DeadPid} \cup Pids : LeaveLock(content)
    \/ \E p \in Pids : Start(p)
    \/ \E p \in Pids : acquire_lock(p)
    \/ \E p \in Pids, reached \in BOOLEAN, url \in BOOLEAN, result \in BOOLEAN,
             still \in BOOLEAN : force_delete_webhook(p, reached, url, result, still)
    \/ \E p \in Pids, ok \in BOOLEAN : StartPolling(p, ok)
    \/ \E p \in Pids, raised \in BOOLEAN : StopPolling(p, raised)
    \/ \E p \in Pids : Finally(p)
    \/ \E p \in Pids : Crashed(p)

LockSpec == Init /\ [][LockNext]_vars

\* A process that is in acquire_lock goes on: its sleeps end
FairLockSpec == LockSpec /\ \A p \in Pids : WF_vars(acquire_lock(p))

(***************************************************************************)
(* Specification of the sessions of two principals: registration up to the *)
(* pricing step, the creative dialogue and the start over, with the        *)
(* handler of a verified forward split at its await                        *)
(***************************************************************************)
\* The forwards the gate passes now
Passes(message, called) ==
    /\ message.kind = "forward"
    /\ LET check == check_bot_admin_status(called, botMember[message.chat])
       IN  check.is_admin /\ Truthy(check.can_post)

SessionNext ==
    \/ \E c \in TgChannels, m \in RegMembers : SetMember(c, m)
    \/ \E p \in Owners, fail \in Fails : callback_add_channel(p, fail)
    \/ \E p \in Owners, m \in ForwardMessages, called \in BOOLEAN :
           ForwardVerify(p, m, called)
    \/ \E p \in Owners, fail \in Fails : ForwardAnswer(p, fail)
    \/ \E p \in Owners, m \in ForwardMessages, called \in BOOLEAN, fail \in Fails :
           ~Passes(m, called) /\ process_channel_forward(p, m, called, fail)
    \/ \E p \in Buyers, o \in OrderIds, sent \in BOOLEAN :
           callback_submit_creative(p, o, sent)
    \/ \E p \in Buyers, m \in DialogueMessages, sent \in BOOLEAN :
           process_creative_content(p, m, sent)
    \/ \E p \in Buyers, m \in Messages, ok \in BOOLEAN, sent \in BOOLEAN :
           process_creative_media(p, m, ok, sent)
    \/ \E p \in Owners, ok \in BOOLEAN, sent \in BOOLEAN : cmd_start(p, ok, sent)
    \/ \E p \in Principals : callback_main_menu(p)

SessionSpec == Init /\ [][SessionNext]_vars

(***************************************************************************)
(* Specification of the persistence API called directly                    *)
(***************************************************************************)
EmptyDict == <<>>
ApiPricings == {EmptyDict, [post |-> 100]}
ApiPrices == {0, 100}

\* Request bodies of PATCH /orders/{id}
Bodies ==
    {[price |-> 5], [ad_type |-> "story"], [status |-> "paid", price |-> 5],
     [status |-> "cancelled"], [status |-> "posted", ad_type |-> "repost"],
     [notes |-> "n"], [creative_content |-> "ad"], [creative_media_id |-> "m1"],
     [payment_method |-> "card"]}

PatchOrder(order_id, update_data, ok) ==
    /\ orders' = ApiPatchOrder(ok, order_id, update_data).orders
    /\ UNCHANGED <<users, channels, session, approve, channelPosts, conversation>>

ApiNext ==
    \/ \E p \in Owners, tg \in TgChannels, u \in Usernames, pricing \in ApiPricings :
           CreateChannel(p, tg, u, pricing)
    \/ \E p \in Buyers, c \in ChannelIds, a \in AdTypeButtons, pr \in ApiPrices,
             committed \in BOOLEAN : CreateOrder(p, c, a, pr, committed)
    \/ \E o \in OrderIds, update_data \in Bodies, ok \in BOOLEAN :
           PatchOrder(o, update_data, ok)

ApiSpec == Init /\ [][ApiNext]_vars

(***************************************************************************)
(* Specification of the registry of channels: any principal registers any  *)
(* of two external ids, and orders are placed                              *)
(***************************************************************************)
RegChannels == {-1001, -1002}

RegistryNext ==
    \/ \E p \in Principals, tg \in RegChannels, u \in Usernames, pricing \in ApiPricings :
           CreateChannel(p, tg, u, pricing)
    \/ \E p \in Buyers, c \in ChannelIds, a \in AdTypes, pr \in Prices,
             committed \in BOOLEAN : CreateOrder(p, c, a, pr, committed)

RegistrySpec == Init /\ [][RegistryNext]_vars

(***************************************************************************)
(* Specification of the registration with the price lists that mix lines   *)
(* that are valid and lines that are not                                   *)
(***************************************************************************)
PricingMessages ==
    {<<<<"post", "100">>>>,
     <<<<"hello">>, <<"story", "abc">>>>,
     <<<<"banner", "100">>, <<"post", "100", "1">>, <<"story", "abc">>,
       <<"story", "50">>, <<"hello">>>>,
     <<<<"repost", "100">>, <<"post", "50">>>>,
     <<<<"banner", "100">>>>,
     <<<<"post", "100", "1">>>>,
     <<<<"post", "">>>>}

PricingNext ==
    \/ \E c \in TgChannels, m \in RegMembers : SetMember(c, m)
    \/ \E p \in Talkers, fail \in Fails : callback_add_channel(p, fail)
    \/ \E p \in Talkers, m \in ForwardMessages, called \in BOOLEAN, fail \in Fails :
           process_channel_forward(p, m, called, fail)
    \/ \E p \in Talkers, text \in PricingMessages, ok \in BOOLEAN, fail \in Fails :
           process_channel_pricing(p, text, ok, fail)

PricingSpec == Init /\ [][PricingNext]_vars

(***************************************************************************)
(* Specification of the creative dialogue: an order is placed and the      *)
(* principals go through the two steps                                     *)
(***************************************************************************)
CreativeNext ==
    \/ \E p \in Owners, tg \in TgChannels, u \in Usernames, pricing \in Pricings :
           ChannelByTg(tg) = {} /\ CreateChannel(p, tg, u, pricing)
    \/ \E p \in Buyers, c \in DOMAIN channels, a \in AdTypes, pr \in Prices,
             committed \in BOOLEAN : CreateOrder(p, c, a, pr, committed)
    \/ \E p \in Principals, o \in OrderIds, sent \in BOOLEAN :
           callback_submit_creative(p, o, sent)
    \/ \E p \in Principals, m \in Messages, sent \in BOOLEAN :
           process_creative_content(p, m, sent)
    \/ \E p \in Principals, m \in Messages, ok \in BOOLEAN, sent \in BOOLEAN :
           process_creative_media(p, m, ok, sent)

CreativeSpec == Init /\ [][CreativeNext]_vars

(***************************************************************************)
(* Specification of the external calls of pay and approve: the API fills   *)
(* the tables and takes the creative, the handlers pay and publish         *)
(***************************************************************************)
CallNext ==
    \/ \E p \in Owners, tg \in TgChannels, u \in Usernames, pricing \in Pricings :
           ChannelByTg(tg) = {} /\ CreateChannel(p, tg, u, pricing)
    \/ \E p \in Buyers, c \in DOMAIN channels, a \in AdTypes, pr \in Prices,
             committed \in BOOLEAN : CreateOrder(p, c, a, pr, committed)
    \/ \E o \in OrderIds, x \in Texts, ok \in BOOLEAN :
           PatchOrder(o, CreativeBody(x, None), ok)
    \/ \E p \in Principals, o \in OrderIds, now \in Times, ok \in BOOLEAN :
           callback_pay_order(p, o, now, ok)
    \/ \E t \in Tasks, p \in Principals, o \in OrderIds, ok1 \in BOOLEAN, ok2 \in BOOLEAN :
           ApproveRead(t, p, o, ok1, ok2)
    \/ \E t \in Tasks, ok \in BOOLEAN : ApproveSend(t, ok)
    \/ \E t \in Tasks, now \in Times, ok \in BOOLEAN : ApprovePatch(t, now, ok)
    \/ \E p \in Principals, o \in OrderIds, ok \in BOOLEAN :
           callback_reject_order(p, o, ok)
    \/ \E p \in Principals, o \in OrderIds, ok \in BOOLEAN :
           callback_cancel_order(p, o, ok)

CallSpec == Init /\ [][CallNext]_vars

(***************************************************************************)
(* Specification of the notifications: the API fills the tables and        *)
(* notify_order_status_change is called for an order and a status          *)
(***************************************************************************)
NotifyNext ==
    \/ ApiNext
    \/ \E o \in OrderIds, st \in Statuses, okOrder \in BOOLEAN, okChannel \in BOOLEAN,
             okSend \in BOOLEAN : Notify(o, st, okOrder, okChannel, okSend)

NotifySpec == Init /\ [][NotifyNext]_vars

(***************************************************************************)
(* Properties of the order lifecycle                                       *)
(***************************************************************************)
Status(o) == orders[o].status
OwnerOf(o) == channels[orders[o].channel_id].owner_id
PostsOf(o) == {i \in DOMAIN channelPosts : channelPosts[i].order_id = o}
Publishing(o) == {t \in Tasks : approve[t].pc = "sent" /\ approve[t].order_id = o}

\* The steps that are a call of each transition on order o
IsPay(o) == \E p \in Principals, now \in Times, ok \in BOOLEAN :
                callback_pay_order(p, o, now, ok)
IsSubmit(o) == \E p \in Buyers, m \in Messages, ok \in BOOLEAN, sent \in BOOLEAN :
                /\ session[p].state = "waiting_for_media"
                /\ Get(session[p].data, "order_id") = o
                /\ MediaStep(m).do = "submit"
                /\ process_creative_media(p, m, ok, sent)
IsApproveWrite(o) == \E t \in Tasks, now \in Times, ok \in BOOLEAN :
                approve[t].order_id = o /\ ApprovePatch(t, now, ok)
IsReject(o) == \E p \in Principals, ok \in BOOLEAN : callback_reject_order(p, o, ok)
IsCancelBy(p, o) == \E ok \in BOOLEAN : callback_cancel_order(p, o, ok)

\* C1: a pay, submit_creative, approve, reject or cancel called on an order
\* whose status is outside the transition's source set changes no field of
\* the order.
C1_CallOutsideSourceSetChangesNothing ==
    [][\A o \in OrderIds : OrderExists(o) =>
         /\ (IsPay(o) /\ Status(o) # "pending_payment") => orders'[o] = orders[o]
         /\ (IsSubmit(o) /\ Status(o) # "paid") => orders'[o] = orders[o]
         /\ (IsApproveWrite(o) /\ Status(o) # "creative_submitted")
                => orders'[o] = orders[o]
         /\ (IsReject(o) /\ Status(o) # "creative_submitted") => orders'[o] = orders[o]
         /\ (\E p \in Principals : IsCancelBy(p, o)) /\ Status(o) # "pending_payment"
                => orders'[o] = orders[o]]_vars

\* C2: of an approve and a reject running concurrently on a CreativeSubmitted
\* order only one succeeds: a reject that arrives when the approve has already
\* published the ad observes a Conflict and writes nothing.
C2_RejectAfterPublishConflicts ==
    [][\A o \in OrderIds :
         (/\ OrderExists(o)
          /\ Status(o) = "creative_submitted"
          /\ Publishing(o) # {}
          /\ IsReject(o)) => orders'[o] = orders[o]]_vars

\* C3: at most one message is ever sent to the channel for an order.
C3_AtMostOnePostPerOrder ==
    \A o \in OrderIds : Cardinality(PostsOf(o)) <= 1

\* C4: an ad is never live in the channel while the stored status of its
\* order is still creative_submitted: the status is written before the send.
C4_StatusRecordedBeforePublish ==
    \A o \in OrderIds :
        (OrderExists(o) /\ PostsOf(o) # {}) => Status(o) # "creative_submitted"

\* C5: only the owner of the order's channel gets an approve to publish.
C5_OnlyOwnerPublishes ==
    \A t \in Tasks :
        approve[t].pc = "sent" => approve[t].actor = OwnerOf(approve[t].order_id)

\* C6: a cancel by someone who is not the buyer, or on an order that is not
\* in pending_payment, leaves the status of the order unchanged.
C6_CancelOnlyByBuyerWhilePending ==
    [][\A o \in OrderIds, p \in Principals :
         (/\ OrderExists(o)
          /\ IsCancelBy(p, o)
          /\ (p # orders[o].buyer_id \/ Status(o) # "pending_payment"))
         => orders'[o].status = orders[o].status]_vars

\* C7: a reject on an order that is posted (or completed) leaves its status
\* as it was.
C7_RejectAfterPostedKeepsStatus ==
    [][\A o \in OrderIds :
         (OrderExists(o) /\ IsReject(o) /\ Status(o) \in {"posted", "completed"})
         => orders'[o].status = orders[o].status]_vars

\* An order that pay, submit creative and approve have taken to posted
HappyPathPosted(o) ==
    /\ OrderExists(o)
    /\ Status(o) = "posted"
    /\ orders[o].payment_method = "simulated"
    /\ orders[o].creative_content # None
    /\ orders[o].post_url # NoRef
    /\ Cardinality(PostsOf(o)) = 1

C9_CancelledIsFinal ==
    [][\A o \in OrderIds :
         (OrderExists(o) /\ Status(o) = "cancelled") => orders'[o].status = "cancelled"]_vars

\* C10: the creative-submission dialogue completed for an order that is not
\* paid changes neither the status nor the creative of the order.
C10_SubmitOnlyFromPaid ==
    [][\A o \in OrderIds :
         (OrderExists(o) /\ IsSubmit(o) /\ Status(o) # "paid")
         => /\ orders'[o].status = orders[o].status
            /\ orders'[o].creative_content = orders[o].creative_content
            /\ orders'[o].creative_media_id = orders[o].creative_media_id]_vars

(***************************************************************************)
(* Properties of orders and channels as the API stores them                *)
(***************************************************************************)
\* C11: every step leaves the price and the ad_type of an existing order as
\* they are, whatever the body of the update.
C11_PriceAndAdTypeFixed ==
    [][\A o \in OrderIds : OrderExists(o) =>
         /\ orders'[o].price = orders[o].price
         /\ orders'[o].ad_type = orders[o].ad_type]_vars

C11_Witness ==
    \E o \in OrderIds :
        /\ OrderExists(o)
        /\ Status(o) = "posted"
        /\ orders[o].notes = "n"
        /\ orders[o].payment_method = "card"
        /\ orders[o].ad_type = "post"
        /\ orders[o].price = 100

PriceList(o) == channels[orders[o].channel_id].pricing

\* C12: the ad_type of every order is a key of the price list of its channel.
C12_AdTypeInPriceList ==
    \A o \in DOMAIN orders : orders[o].ad_type \in DOMAIN PriceList(o)

\* C13: the price of every order is the entry of its ad_type in the price
\* list of its channel.
C13_PriceIsSnapshot ==
    \A o \in DOMAIN orders :
        /\ orders[o].ad_type \in DOMAIN PriceList(o)
        /\ orders[o].price = PriceList(o)[orders[o].ad_type]

\* C14: no channel is stored with an empty price list.
C14_NoEmptyPriceList ==
    \A c \in DOMAIN channels : DOMAIN channels[c].pricing # {}

(***************************************************************************)
(* Properties of the registration conversation                             *)
(***************************************************************************)
\* The rights with which the bot can post: the rows of the decision table
\* that give is_admin and can_post
CanPostAs(member) ==
    \/ member.status = "creator"
    \/ member.status = "administrator" /\ member.can_post_messages = PyTrue

\* The steps in which p's forward of a message from channel c is handled
IsForwardOf(p, c, fail) ==
    \E u \in Usernames, called \in BOOLEAN :
        process_channel_forward(p, [kind |-> "forward", chat |-> c, username |-> u],
                                called, fail)

\* C15: every channel row carries an external id that the gate has passed in
\* the session of its owner.
C15_ChannelOnlyAfterGate ==
    \A c \in DOMAIN channels :
        channels[c].telegram_channel_id \in verified[channels[c].owner_id]

\* C16: a session enters waiting_for_pricing only from waiting_for_forward,
\* by the handling of a message forwarded from a channel in which the bot
\* has the rights to post, and the principal is told the channel is verified.
C16_PricingOnlyAfterGate ==
    [][\A p \in Principals :
         (session'[p].state = "waiting_for_pricing"
             /\ session[p].state # "waiting_for_pricing")
         => /\ session[p].state = "waiting_for_forward"
            /\ \E c \in TgChannels :
                 /\ CanPostAs(botMember[c])
                 /\ "channel_id" \in DOMAIN session'[p].data
                 /\ session'[p].data["channel_id"] = c
                 /\ \E fail \in Fails : IsForwardOf(p, c, fail)
            /\ lastAnswer'[p] = "channel_verified"]_vars

C16_Witness ==
    \E p \in Principals :
        /\ session[p].state = "waiting_for_pricing"
        /\ lastAnswer[p] = "channel_verified"

\* The decision table of the gate
DecisionTable(called, member) ==
    CASE ~called -> [is_admin |-> FALSE, can_post |-> PyFalse]
      [] called /\ member.status = "creator" -> [is_admin |-> TRUE, can_post |-> PyTrue]
      [] called /\ member.status = "administrator" ->
             [is_admin |-> TRUE, can_post |-> member.can_post_messages]
      [] OTHER -> [is_admin |-> FALSE, can_post |-> PyFalse]

\* C17: what a call of the gate returns is the row of the decision table for
\* the membership record it was given (or for the failed call).
C17_GateIsDecisionTable ==
    admin_check.asked =>
        admin_check.result = DecisionTable(admin_check.called, admin_check.member)

C17_Witness ==
    /\ admin_check.asked
    /\ admin_check.called
    /\ admin_check.member.status = "administrator"
    /\ admin_check.member.can_post_messages = PyFalse
    /\ admin_check.result = [is_admin |-> TRUE, can_post |-> PyFalse]

\* C18: a forward is judged by the rights the bot has now: when they do not
\* allow posting the attempt is rejected, also for a chat the gate has passed
\* before in the same session.
C18_GateNeverCached ==
    [][\A p \in Principals, c \in TgChannels :
         (/\ c \in verified[p]
          /\ ~CanPostAs(botMember[c])
          /\ \E fail \in Fails : IsForwardOf(p, c, fail))
         => /\ session'[p].state # "waiting_for_pricing"
            /\ session'[p] \in {Cleared, session[p]}
            /\ verified' = verified]_vars

C18_Witness ==
    \E p \in Principals, c \in TgChannels :
        /\ c \in verified[p]
        /\ ~CanPostAs(botMember[c])
        /\ lastAnswer[p] = "bot_not_admin"
        /\ session[p] = Cleared

\* The steps in which the gate fails for p's forward from channel c
IsGateFailure(p, c, fail) ==
    \E u \in Usernames, called \in BOOLEAN :
        /\ ~called \/ ~CanPostAs(botMember[c])
        /\ process_channel_forward(p, [kind |-> "forward", chat |-> c, username |-> u],
                                   called, fail)

IsFailedHandler(p) ==
    \/ \E fail \in Fails \ {"none"} : callback_add_channel(p, fail)
    \/ \E m \in ForwardMessages, called \in BOOLEAN, fail \in Fails \ {"none"} :
           session[p].state = "waiting_for_forward"
           /\ process_channel_forward(p, m, called, fail)
    \/ \E c \in ChannelIds : callback_purchase_channel(p, c, TRUE, FALSE)
    \/ \E a \in AdTypeButtons : callback_select_ad_type(p, a, FALSE)
    \/ \E o \in OrderIds : callback_submit_creative(p, o, FALSE)

\* C20: a handler in which a step fails leaves the session, state and data,
\* as it was.
C20_FailedHandlerKeepsSession ==
    [][\A p \in Principals : IsFailedHandler(p) => session'[p] = session[p]]_vars

(***************************************************************************)
(* Properties of the session: validation, start over, step data            *)
(***************************************************************************)
\* The steps in which a message of p that is not a forward from a channel is
\* handled in waiting_for_forward
IsNotAForward(p, fail) ==
    \E called \in BOOLEAN :
        process_channel_forward(p, [kind |-> "text"], called, fail)

\* C21: a message that is not forwarded from a channel, handled in
\* waiting_for_forward, leaves the session (state and step data) as it was,
\* passes no chat through the gate and writes no row.
C21_NotAForwardKeepsSession ==
    [][\A p \in Principals :
         (\E fail \in Fails : IsNotAForward(p, fail))
         => /\ session'[p] = session[p]
            /\ verified' = verified
            /\ users' = users
            /\ channels' = channels]_vars

\* The pricing messages that carry no price list: no text at all (a photo),
\* or a text without a valid line
NoPriceList(text) == IF text = None THEN TRUE ELSE DOMAIN ParsePricing(text) = {}

\* C22: a message without a well-formed price list, handled in
\* waiting_for_pricing with its answer delivered, leaves the session in
\* waiting_for_pricing with the pending channel unchanged and creates no
\* channel.
C22_NoPriceListKeepsDraft ==
    [][\A p \in Principals, text \in PricingTexts, ok \in BOOLEAN :
         (/\ NoPriceList(text)
          /\ DOMAIN session[p].data # {}
          /\ process_channel_pricing(p, text, ok, "none"))
         => /\ session'[p] = session[p]
            /\ channels' = channels]_vars

\* The states of the two StatesGroup classes, and no state
States ==
    {None, "waiting_for_forward", "waiting_for_pricing", "selecting_ad_type",
     "confirming_purchase", "waiting_for_content", "waiting_for_media"}

\* The steps in which p starts over: /start or the main menu button
IsStartOver(p) ==
    \/ \E ok \in BOOLEAN, sent \in BOOLEAN : cmd_start(p, ok, sent)
    \/ callback_main_menu(p)

\* C23: /start and the main menu button leave the session without state and
\* without step data, from every state, whether POST /users/ succeeds or not
\* and whether the menu is delivered or not.
C23_StartOverClears ==
    [][\A p \in Principals : IsStartOver(p) => session'[p] = Cleared]_vars

C23_Witness ==
    \E p \in Principals :
        /\ lastAnswer[p] = "welcome"
        /\ verified[p] # {}
        /\ session[p] = Cleared
        /\ ~users[p].exists

\* C24: a session without state has no step data.
C24_IdleHasNoData ==
    \A p \in Principals : session[p].state = None => DOMAIN session[p].data = {}

\* The step data each state reads
Required(state) ==
    CASE state = "waiting_for_pricing" -> {"channel_id", "channel_title"}
      [] state = "selecting_ad_type" -> {"channel_id", "pricing"}
      [] state = "confirming_purchase" -> {"ad_type", "price"}
      [] state \in {"waiting_for_content", "waiting_for_media"} -> {"order_id"}
      [] OTHER -> {}

\* C25: every session is in one of the seven states and holds the step data
\* of its state: the pending channel id and title in waiting_for_pricing, the
\* channel id and price list in selecting_ad_type, the ad type and price in
\* confirming_purchase, the order id in the creative states.
C25_StateHasItsData ==
    \A p \in Principals :
        /\ session[p].state \in States
        /\ ~forwarding[p] => Required(session[p].state) \subseteq DOMAIN session[p].data

\* The steps of the handlers that run for an update of p
IsStepOf(p) ==
    \/ \E fail \in Fails : callback_add_channel(p, fail)
    \/ \E m \in ForwardMessages, called \in BOOLEAN : ForwardVerify(p, m, called)
    \/ \E fail \in Fails : ForwardAnswer(p, fail)
    \/ \E m \in ForwardMessages, called \in BOOLEAN, fail \in Fails :
           process_channel_forward(p, m, called, fail)
    \/ \E o \in OrderIds, sent \in BOOLEAN : callback_submit_creative(p, o, sent)
    \/ \E m \in DialogueMessages, sent \in BOOLEAN : process_creative_content(p, m, sent)
    \/ \E m \in Messages, ok \in BOOLEAN, sent \in BOOLEAN :
           process_creative_media(p, m, ok, sent)
    \/ IsStartOver(p)

\* C26: a step of a handler that runs for principal a leaves the session of
\* every other principal, state and step data, as it was; no step changes
\* the sessions of two principals.
C26_SessionsIndependent ==
    [][/\ \A a, b \in Principals :
            (a # b /\ IsStepOf(a)) => session'[b] = session[b]
       /\ \A a, b \in Principals :
            (session'[a] # session[a] /\ session'[b] # session[b]) => a = b]_vars

C26_Witness ==
    \E a, b \in Principals :
        /\ session[a].state = "waiting_for_pricing"
        /\ "order_id" \notin DOMAIN session[a].data
        /\ session[b].state = "waiting_for_media"
        /\ "channel_id" \notin DOMAIN session[b].data

(***************************************************************************)
(* Properties of the notifications and of the external calls               *)
(***************************************************************************)
\* C27: an order whose creative is submitted has had its notification sent
\* to the owner of its channel, and an order whose ad is posted has had its
\* notification sent to its buyer.
C27_EventsNotify ==
    \A o \in OrderIds :
        (OrderExists(o) /\ Status(o) \in {"creative_submitted", "posted"})
        => /\ notice.order_id = o
           /\ notice.sends # <<>>

\* C28: a call of notify_order_status_change in which the sends fail writes
\* nothing to the order, attempts each message once, and ends as the same
\* call with the sends delivered ends: the failed send raises nothing.
C28_FailedSendSwallowed ==
    [][\A o \in OrderIds, st \in Statuses, okOrder \in BOOLEAN, okChannel \in BOOLEAN :
         Notify(o, st, okOrder, okChannel, FALSE)
         => /\ orders' = orders
            /\ notice'.raised =
                 notify_order_status_change(o, st, okOrder, okChannel, TRUE).raised
            /\ st \in {"paid", "posted"} => notice'.raised = None
            /\ \A i, j \in DOMAIN notice'.sends :
                 notice'.sends[i] = notice'.sends[j] => i = j]_vars

C28_Witness ==
    \E o \in OrderIds :
        /\ OrderExists(o)
        /\ Status(o) = "paid"
        /\ notice.order_id = o
        /\ notice.status = "paid"
        /\ notice.raised = None
        /\ Len(notice.sends) = 1
        /\ ~notice.sends[1].delivered

\* C29: a pay whose call fails writes nothing (the call is not repeated), an
\* approve whose send fails publishes nothing and ends, and every message
\* published is the one send of an approve that has read its order and
\* moves on to write the status.
C29_NoRetry ==
    [][/\ \A p \in Principals, o \in OrderIds, now \in Times :
            callback_pay_order(p, o, now, FALSE) => orders' = orders
       /\ \A t \in Tasks :
            (approve[t].pc = "read" /\ ApproveSend(t, FALSE))
            => channelPosts' = channelPosts /\ approve'[t].pc = "idle"
       /\ channelPosts' # channelPosts
            => /\ Len(channelPosts') = Len(channelPosts) + 1
               /\ \E t \in Tasks : approve[t].pc = "read" /\ approve'[t].pc = "sent"]_vars

C29_Witness ==
    \E t \in Tasks :
        /\ approve[t].pc = "sent"
        /\ Cardinality(PostsOf(approve[t].order_id)) = 1
        /\ Status(approve[t].order_id) = "creative_submitted"
        /\ orders[approve[t].order_id].payment_method = "simulated"

\* C30: an order creation for a channel that does not exist, and a channel
\* creation for an external id that is registered, change no table.
C30_FailedCreationWritesNothing ==
    [][/\ \A p \in Buyers, c \in ChannelIds, a \in AdTypeButtons, pr \in ApiPrices,
            committed \in BOOLEAN :
            (c \notin DOMAIN channels /\ CreateOrder(p, c, a, pr, committed))
            => users' = users /\ orders' = orders
       /\ \A p \in Owners, tg \in TgChannels, u \in Usernames, pricing \in ApiPricings :
            (ChannelByTg(tg) # {} /\ CreateChannel(p, tg, u, pricing))
            => users' = users /\ channels' = channels]_vars

(***************************************************************************)
(* Properties of the start of the bot                                      *)
(***************************************************************************)
\* The positions of a process that is past acquire_lock and runs
Running == {"locked", "verified", "polling"}

\* C31: at most one bot process is past acquire_lock and running.
C31_SingleInstance ==
    Cardinality({p \in Pids : proc[p].pc \in Running}) <= 1

\* C33: a process starts polling only after force_delete_webhook has found
\* no webhook left, which it is asked only after acquire_lock has written the
\* lock; a process whose webhook check fails never polls, and the release of
\* the lock is its next step.
C33_StartupOrdered ==
    [][\A p \in Pids :
         /\ (proc'[p].pc = "polling" /\ proc[p].pc # "polling")
            => proc[p].pc = "verified" /\ proc[p].webhook = "absent"
         /\ (proc'[p].pc = "verified" /\ proc[p].pc # "verified")
            => proc[p].pc = "locked" /\ proc'[p].webhook = "absent"
         /\ (proc'[p].pc = "locked" /\ proc[p].pc # "locked")
            => proc[p].pc = "write" /\ lock' = p
         /\ (\E reached \in BOOLEAN, url \in BOOLEAN, result \in BOOLEAN, still \in BOOLEAN :
                /\ ~WebhookAbsent(reached, url, result, still)
                /\ force_delete_webhook(p, reached, url, result, still))
            => proc'[p].pc = "failed"
         /\ proc[p].pc = "failed" => proc'[p].pc \in {"failed", "crashed", "dead"}
         /\ (proc[p].pc = "failed" /\ proc'[p].pc = "crashed") => lock' = Absent
         /\ proc[p].pc = "crashed" => proc'[p].pc \in {"crashed", "exited", "dead"}
         /\ proc[p].pc = "exited" => proc'[p].pc = "exited"]_vars

C33_Witness ==
    \E p, q \in Pids :
        /\ proc[p].pc = "polling"
        /\ proc[p].webhook = "absent"
        /\ lock = p
        /\ proc[q].pc = "exited"
        /\ proc[q].webhook = "present"

\* C34: a call of acquire_lock makes at most WaitChecks checks for the old
\* instance and ends (it returns, it raises, or the process is killed),
\* whatever the lock file held; when it returns the file holds the pid of
\* the caller.
C34_AcquireTerminates ==
    /\ [](\A p \in Pids : proc[p].checks <= WaitChecks)
    /\ [][\A p \in Pids :
            (proc[p].pc \in Acquiring /\ proc'[p].pc = "locked") => lock' = p]_vars
    /\ \A p \in Pids : (proc[p].pc \in Acquiring) ~> (proc[p].pc \notin Acquiring)

C34_Witness ==
    \E p \in Pids :
        /\ proc[p].pc = "locked"
        /\ proc[p].checks = WaitChecks
        /\ lock = p
        /\ proc[proc[p].old_pid].pc = "dead"

\* C35: while a process polls, the lock file holds its pid.
C35_PollingHoldsLock ==
    \A p \in Pids : proc[p].pc = "polling" => lock = p

(***************************************************************************)
(* Properties of the registry of channels                                  *)
(***************************************************************************)
\* C32: no two channel rows have the same external id, and a registration
\* of an external id that is registered is answered "Channel already
\* exists" and leaves every channel row, owner and price list, as it was.
C32_ExternalIdsUnique ==
    /\ [](\A c1, c2 \in DOMAIN channels :
            channels[c1].telegram_channel_id = channels[c2].telegram_channel_id
            => c1 = c2)
    /\ [][\A p \in Principals, tg \in RegChannels, u \in Usernames,
            pricing \in ApiPricings :
            (ChannelByTg(tg) # {} /\ CreateChannel(p, tg, u, pricing))
            => /\ channels' = channels
               /\ create_channel(p, tg, Title, u, pricing).error
                    = "Channel already exists"]_vars

C32_Witness ==
    /\ Len(channels) = 2
    /\ channels[1].owner_id = "alice"
    /\ channels[1].pricing = [post |-> 100]
    /\ channels[2].owner_id = "bob"
    /\ channels[2].telegram_channel_id # channels[1].telegram_channel_id
    /\ Len(orders) = 1

(***************************************************************************)
(* Properties of the purchase and of the creative dialogue                 *)
(***************************************************************************)
\* C36: an order is created only by a confirm that arrives in
\* confirming_purchase, the selection of an ad type is handled only in
\* selecting_ad_type, and the confirm that has created the order leaves the
\* session without state and without data, so that the next confirm finds
\* nothing to create.
C36_ConfirmOnce ==
    [][\A p \in Talkers :
        /\ Len(orders') > Len(orders) => session[p].state = "confirming_purchase"
        /\ (\E a \in AdTypeButtons, sent \in BOOLEAN : callback_select_ad_type(p, a, sent))
           => session[p].state = "selecting_ad_type"
        /\ (\E ok \in BOOLEAN, committed \in BOOLEAN, sent \in BOOLEAN :
               /\ callback_confirm_purchase(p, ok, committed, sent)
               /\ Len(orders') > Len(orders))
           => session'[p] = Cleared]_vars

C38_PostedHasPost ==
    \A o \in DOMAIN orders :
        orders[o].status = "posted"
        => /\ orders[o].post_url # NoRef
           /\ \E i \in DOMAIN channelPosts :
                 /\ channelPosts[i].order_id = o
                 /\ orders[o].channel_id \in DOMAIN channels
                 /\ channelPosts[i].chat
                      = channels[orders[o].channel_id].telegram_channel_id

(***************************************************************************)
(* Properties of the price list of a registration                          *)
(***************************************************************************)
\* C39: the price list of a channel that the conversation registers has
\* only the keys post, story and repost, each with the value of a line of
\* the message that has one colon, that key and a number; every such line
\* gives its key to the list, the other lines give nothing; a message with
\* one such line at least registers the channel, a message with none
\* registers nothing.
C39_OnlyValidLines ==
    /\ [](\A c \in DOMAIN channels :
            /\ DOMAIN channels[c].pricing # {}
            /\ DOMAIN channels[c].pricing \subseteq {"post", "story", "repost"})
    /\ [][\A p \in Talkers, text \in PricingMessages, fail \in Fails :
            LET good == {i \in DOMAIN text :
                            /\ Len(text[i]) = 2
                            /\ text[i][1] \in {"post", "story", "repost"}
                            /\ text[i][2] \in {"100", "50"}}
                data == session[p].data
                row == channels'[Len(channels')]
            IN  /\ (process_channel_pricing(p, text, TRUE, fail)
                    /\ good # {}
                    /\ {"channel_id", "channel_title", "channel_username"}
                          \subseteq DOMAIN data
                    /\ ChannelByTg(data["channel_id"]) = {})
                   => /\ Len(channels') = Len(channels) + 1
                      /\ DOMAIN row.pricing = {text[i][1] : i \in good}
                      /\ \A k \in DOMAIN row.pricing :
                            \E i \in good :
                               /\ text[i][1] = k
                               /\ row.pricing[k] = (IF text[i][2] = "100" THEN 100 ELSE 50)
                /\ (good = {}
                    /\ \E ok \in BOOLEAN : process_channel_pricing(p, text, ok, fail))
                   => channels' = channels]_vars

C39_Witness ==
    /\ Len(channels) = 1
    /\ channels[1].pricing = [story |-> 50]
    /\ lastAnswer["alice"] = "channel_saved"
    /\ session["alice"] = Cleared

====
